---------------------------- MODULE Spec2Model ----------------------------
(***************************************************************************)
(* The load-testing HTTP server of server/index.ts as a state machine.     *)
(*                                                                         *)
(* The process runs one logical stream of control: every action below is   *)
(* one run-to-suspension segment of a handler, a timer callback, a         *)
(* process-level error event, or the passing of time.  Requests            *)
(* interleave only at their suspension points (the static-file lookup of   *)
(* the middleware chain, `await import`, `await render`, and the awaited   *)
(* timers).                                                                *)
(***************************************************************************)
EXTENDS Integers, Sequences, FiniteSets, TLC

(***************************************************************************)
(* Bounds of the model.                                                    *)
(***************************************************************************)
MaxReq == 2
    \* requests accepted in one behaviour
MaxTime == 1200
    \* last instant (ms after boot) the clock reaches
MaxFine == 1
    \* up to this instant the clock also advances in single milliseconds;
    \* later it jumps from timer deadline to timer deadline
MaxBusyMs == 1
    \* longest time a synchronous computation (fibonacci, allocation) takes
MaxFaults == 1
    \* uncaught exceptions raised by code outside the handlers
MemLimitMB == 12
    \* megabytes of buffers the host lets the process hold
StackLimit == 10000
    \* recursion depth at which the engine throws RangeError

(***************************************************************************)
(* Program constants.                                                      *)
(***************************************************************************)
DefaultN == 40
DefaultSize == 10
DefaultDelay == 100
DefaultCpu == 30
DefaultMemory == 5
DefaultAsyncDelay == 50
ReleaseDelay == 1000
MsPerSecond == 1000
TIMEOUT_MAX == 2147483647
    \* 2^31 - 1: the longest delay setTimeout honours

(***************************************************************************)
(* Query strings.  A query value is a sequence of characters; a query is   *)
(* a function from the names present in the URL to their values.           *)
(***************************************************************************)
NoQuery == [p \in {} |-> <<>>]

Digits == {"0", "1", "2", "3", "4", "5", "6", "7", "8", "9"}

DigitVal(c) ==
    CASE c = "0" -> 0 [] c = "1" -> 1 [] c = "2" -> 2 [] c = "3" -> 3
      [] c = "4" -> 4 [] c = "5" -> 5 [] c = "6" -> 6 [] c = "7" -> 7
      [] c = "8" -> 8 [] c = "9" -> 9

\* The numbers parseInt returns.  An integer beyond TIMEOUT_MAX in size is
\* kept as "beyond v, away from zero", with v = TIMEOUT_MAX or -TIMEOUT_MAX.
NaN == [nan |-> TRUE, v |-> 0, over |-> FALSE]

Num(x) == [nan |-> FALSE, v |-> x, over |-> FALSE]

Over(neg) ==
    [nan |-> FALSE, v |-> IF neg THEN 0 - TIMEOUT_MAX ELSE TIMEOUT_MAX,
     over |-> TRUE]

RECURSIVE SkipSpace(_)
SkipSpace(s) ==
    IF s # <<>> /\ Head(s) = " " THEN SkipSpace(Tail(s)) ELSE s

RECURSIVE DigitPrefix(_)
DigitPrefix(s) ==
    IF s # <<>> /\ Head(s) \in Digits
    THEN <<Head(s)>> \o DigitPrefix(Tail(s))
    ELSE <<>>

RECURSIVE DecimalValue(_, _)
DecimalValue(ds, acc) ==
    IF ds = <<>> THEN acc
    ELSE DecimalValue(Tail(ds), 10 * acc + DigitVal(Head(ds)))

\* Whether the decimal number acc followed by the digits ds is above
\* TIMEOUT_MAX.
RECURSIVE Overflows(_, _)
Overflows(ds, acc) ==
    IF ds = <<>> THEN FALSE
    ELSE LET d == DigitVal(Head(ds)) IN
         IF acc > (TIMEOUT_MAX - d) \div 10 THEN TRUE
         ELSE Overflows(Tail(ds), 10 * acc + d)

\* parseInt(string) with no radix, on decimal input: leading blanks are
\* skipped, one sign is accepted, the longest prefix of digits is read and
\* whatever follows is ignored; no digit at all gives NaN.
ParseInt(s) ==
    LET t == SkipSpace(s)
        neg == t # <<>> /\ Head(t) = "-"
        u == IF t # <<>> /\ Head(t) \in {"-", "+"} THEN Tail(t) ELSE t
        ds == DigitPrefix(u)
    IN  IF ds = <<>> THEN NaN
        ELSE IF Overflows(ds, 0) THEN Over(neg)
        ELSE Num(IF neg THEN 0 - DecimalValue(ds, 0) ELSE DecimalValue(ds, 0))

\* parseInt(req.query.name as string): an absent parameter is undefined,
\* which parseInt reads as the text "undefined".
QueryInt(q, name) ==
    IF name \in DOMAIN q THEN ParseInt(q[name]) ELSE NaN

\* A variant of OrDefault that falls back on NaN only (`x ?? d` on parse).
OrDefaultKeepsZero(x, d) == IF x.nan THEN d ELSE x.v

\* `x || d` on a number: NaN and 0 are falsy.  (A number beyond TIMEOUT_MAX
\* comes out as TIMEOUT_MAX: fibonacci and Buffer.alloc throw on both.)
OrDefault(x, d) == IF x.nan \/ x.v = 0 THEN d ELSE x.v

\* The same expression where the number goes to setTimeout and into the
\* response: it is kept as parseInt returned it.
OrDefaultNum(x, d) == IF x.nan \/ x.v = 0 THEN Num(d) ELSE x


(***************************************************************************)
(* Numbers as the handlers hand them to res.json.  A quotient is kept as   *)
(* an exact fraction; a division by zero gives Infinity or NaN as in       *)
(* IEEE-754, and JSON.stringify writes both of them as null.               *)
(***************************************************************************)
Ratio(a, b) == [kind |-> "num", num |-> a, den |-> b]

Divide(a, b, scale) ==
    \* (a / (b / scale)) for b >= 0
    IF b # 0 THEN Ratio(a * scale, b)
    ELSE IF a = 0 THEN [kind |-> "NaN", num |-> 0, den |-> 0]
    ELSE [kind |-> "Infinity", num |-> a, den |-> 0]

JsonNumber(x) ==
    IF x.kind = "num" THEN x ELSE [kind |-> "null", num |-> 0, den |-> 0]

(***************************************************************************)
(* Load generators.                                                        *)
(***************************************************************************)
MaxFibN == DefaultN
    \* largest argument whose value the model tabulates

RECURSIVE FibTable(_)
FibTable(k) ==
    \* <<fib(0), ..., fib(k)>>: the values the double recursion returns,
    \* each computed once
    IF k = 0 THEN <<0>>
    ELSE IF k = 1 THEN <<0, 1>>
    ELSE LET t == FibTable(k - 1) IN Append(t, t[k] + t[k - 1])

FibMemo == FibTable(MaxFibN)

\* A variant of fibonacci that returns the value of the first recursive
\* call alone.
fibonacciOfPrevious(n) == IF n <= 1 THEN n ELSE FibMemo[(n - 1) + 1]

\* function fibonacci(n): n itself for n <= 1 (negative n included),
\* otherwise the sum of the two recursive calls.
fibonacci(n) ==
    IF n <= 1 THEN n
    ELSE FibMemo[(n - 1) + 1] + FibMemo[(n - 2) + 1]

\* The recursion is n - 1 frames deep: past the engine's stack it throws
\* RangeError instead of returning.
FibThrows(n) == n > StackLimit

BufferBytes == 1048576

RECURSIVE AllocLoop(_, _, _)
AllocLoop(i, iterations, buffers) ==
    IF i < iterations
    THEN AllocLoop(i + 1, iterations, Append(buffers, BufferBytes))
    ELSE buffers

\* A variant of allocateMemory that allocates the magnitude of sizeMB.
allocateMemoryAbs(sizeMB) ==
    AllocLoop(0, IF sizeMB < 0 THEN 0 - sizeMB ELSE sizeMB, <<>>)

\* function allocateMemory(sizeMB): Math.floor of an integer is itself.
allocateMemory(sizeMB) == AllocLoop(0, sizeMB, <<>>)

\* A variant of TimerDelay that sets every delay to 1 ms.
TimerDelayMinimal(ms) == 1

\* A variant of TimerDelay whose timers fall due after the last instant.
TimerDelayBeyond(ms) == MaxTime + 1

\* setTimeout(cb, ms): a delay below 1 ms or above TIMEOUT_MAX is set to
\* 1 ms.
TimerDelay(ms) == IF ms.over \/ ms.v < 1 THEN 1 ELSE ms.v

(***************************************************************************)
(* State.                                                                  *)
(***************************************************************************)
VARIABLES
    phase,       \* "loading", "listening" or "exited"
    exitCode,    \* the exit status once the process has exited
    now,         \* Date.now(), in ms since the process was started
    metrics,     \* the LoadTestMetrics object
    reqs,        \* the requests accepted so far, in order of arrival
    timers,      \* the pending setTimeout callbacks
    rejections,  \* requests whose handler promise rejected, not yet reported
    faults,      \* uncaught exceptions raised so far outside the handlers
    nsolid,      \* the profiling runtime: "absent", "idle" or "profiling"
    ui,          \* the refs of the front-end component and its calls
    script       \* the run of the load-test script

vars == <<phase, exitCode, now, metrics, reqs, timers, rejections, faults,
          nsolid, ui, script>>

\* const metrics: LoadTestMetrics = { requestCount: 0, startTime: Date.now(), errors: 0 }
NewMetrics(t) == [requestCount |-> 0, startTime |-> t, errors |-> 0]

\* Variants of RecordRequest: counting twice, and not counting.
RecordRequestTwice(m) == [m EXCEPT !.requestCount = @ + 2]

RecordRequestNever(m) == m

\* metrics.requestCount++
RecordRequest(m) == [m EXCEPT !.requestCount = @ + 1]

\* A variant of RecordError that counts down.
RecordErrorDown(m) == [m EXCEPT !.errors = @ - 1]

\* A variant of RecordError that takes the failed request out of requestCount.
RecordErrorNotRequest(m) ==
    [m EXCEPT !.errors = @ + 1, !.requestCount = @ - 1]

\* metrics.errors++
RecordError(m) == [m EXCEPT !.errors = @ + 1]

(***************************************************************************)
(* Requests.                                                               *)
(***************************************************************************)
ApiPaths ==
    {"/api/health", "/api/metrics", "/api/cpu-load", "/api/memory-load",
     "/api/async-load", "/api/combined-load"}

StaticFiles == {"/assets/index.js"}

\* A variant of HandlerOf whose app.get routes take GET requests only.
HandlerOfGetOnly(method, path) ==
    IF method \in {"GET", "HEAD"} /\ path \in StaticFiles THEN "static"
    ELSE IF method = "GET" /\ path \in ApiPaths THEN path
    ELSE "ssr"

\* The handler the middleware chain ends in: serve-static answers GET and
\* HEAD of a file of dist/client, app.get answers GET of its own path and,
\* as the router has no HEAD route, HEAD of it as well, and app.use('*')
\* takes everything else.
HandlerOf(method, path) ==
    IF method \in {"GET", "HEAD"} /\ path \in StaticFiles THEN "static"
    ELSE IF method \in {"GET", "HEAD"} /\ path \in ApiPaths THEN path
    ELSE "ssr"

NoBody == [p \in {} |-> <<>>]

\* The request <<method, path, query>> as its handler takes it up.
NewRequest(inp) ==
    [method |-> inp[1], path |-> inp[2], query |-> inp[3],
     pc |-> "accepted", status |-> 0, body |-> NoBody,
     start |-> 0, fibResult |-> 0, allocatedMB |-> 0, delay |-> Num(0),
     buffers |-> <<>>,
     seenErrors |-> metrics.errors,
         \* history: metrics.errors when the request was taken up
     memAfterAlloc |-> 0,
         \* history: megabytes held when combined-load had allocated
     profile |-> "none"]
         \* history: what became of the handler's nsolid.profile call

Q1(name, value) == [p \in {name} |-> value]

Q3(cpu, memory, delay) ==
    [p \in {"cpu", "memory", "delay"} |->
        IF p = "cpu" THEN cpu ELSE IF p = "memory" THEN memory ELSE delay]

\* "3000000000", a delay above TIMEOUT_MAX
ThreeBillion == <<"3", "0", "0", "0", "0", "0", "0", "0", "0", "0">>

\* The requests a client sends in the model.
Inputs ==
    {<<"GET", "/", NoQuery>>,
     <<"GET", "/api/health", NoQuery>>,
     <<"GET", "/api/metrics", NoQuery>>,
     <<"GET", "/assets/index.js", NoQuery>>,
     <<"GET", "/api/cpu-load", Q1("n", <<"0">>)>>,
     <<"GET", "/api/cpu-load", Q1("n", <<"1", "0">>)>>,
     <<"GET", "/api/cpu-load", Q1("n", <<"9", "9", "9", "9", "9">>)>>,
     <<"GET", "/api/memory-load", NoQuery>>,
     <<"GET", "/api/memory-load", Q1("size", <<"0">>)>>,
     <<"GET", "/api/memory-load", Q1("size", <<"3">>)>>,
     <<"GET", "/api/async-load", Q1("delay", <<"2">>)>>,
     <<"GET", "/api/async-load", Q1("delay", ThreeBillion)>>,
     <<"GET", "/api/combined-load", Q3(<<"5">>, <<"1">>, <<"1", "0">>)>>,
     <<"GET", "/api/combined-load", Q3(<<"5">>, <<"9">>, ThreeBillion)>>,
     <<"GET", "/api/combined-load",
       Q3(<<"9", "9", "9", "9", "9">>, <<"1">>, <<"1", "0">>)>>,
     <<"GET", "/api/async-load", Q1("delay", <<"0">>)>>,
     <<"GET", "/api/combined-load", Q3(<<"0">>, <<"0">>, <<"0">>)>>,
     <<"GET", "/api/cpu-load", Q1("n", <<"-", "3">>)>>,
     <<"GET", "/api/memory-load", Q1("size", <<"-", "2">>)>>,
     <<"HEAD", "/api/health", NoQuery>>,
     <<"POST", "/api/cpu-load", Q1("n", <<"1", "0">>)>>,
     <<"GET", "/api/unknown", NoQuery>>}

\* A variant of LiveMB that sees the buffers of the first request only.
LiveMBOfFirst == IF reqs = <<>> THEN 0 ELSE Len(reqs[1].buffers)

LiveMB ==
    \* megabytes held by the buffer arrays of the requests
    LET RECURSIVE Sum(_)
        Sum(i) == IF i = 0 THEN 0 ELSE Len(reqs[i].buffers) + Sum(i - 1)
    IN  Sum(Len(reqs))

\* Buffer.alloc throws RangeError when the host refuses the memory.
AllocThrows(sizeMB) == sizeMB > 0 /\ LiveMB + sizeMB > MemLimitMB

\* ref(null)
Null == [null |-> TRUE]

\* The component as `script setup` leaves it: response = ref(null),
\* loading = ref(false), error = ref(null); no call has been made.
NewUi ==
    [response |-> Null, loading |-> FALSE, error |-> Null,
     calls |-> <<>>,
         \* the callEndpoint invocations that have not settled
     clicks |-> 0]
         \* history: callEndpoint invocations so far

\* The load-test script before its first command.
NewScript ==
    [shell |-> "none", testType |-> "k6", pc |-> "check",
     spawned |-> FALSE,  \* SERVER_PID / $serverProcess is set
     alive |-> FALSE,    \* the spawned server process is running
     killed |-> FALSE,   \* history: the script has killed the process
     retries |-> 0,      \* RETRIES / $retries
     failed |-> 0,       \* history: wait-loop probes that did not succeed
     odd |-> 0,          \* history: wait-loop probes answered, but not with 200
     probed |-> FALSE,   \* history: a wait-loop probe has succeeded
     ran |-> FALSE,      \* history: a load test has been run
     exit |-> 0]         \* the exit status once pc = "exited"

\* Everything but the profiling runtime.
InitButNsolid ==
    /\ phase = "loading"
    /\ exitCode = 0
    /\ now = 0
    /\ metrics = NewMetrics(0)
    /\ reqs = <<>>
    /\ timers = {}
    /\ rejections = {}
    /\ faults = 0
    /\ ui = NewUi
    /\ script = NewScript

\* require('nsolid') throws on the regular runtime.
Init == InitButNsolid /\ nsolid = "absent"

\* The process runs on either runtime.
InitAnyRuntime == InitButNsolid /\ nsolid \in {"absent", "idle"}

(***************************************************************************)
(* Startup.                                                                *)
(***************************************************************************)
\* The template and the manifest are read and initializeServer() installs
\* the error handlers, the metrics object and the routes, then listens.
StartupOk ==
    /\ phase = "loading"
    /\ phase' = "listening"
    /\ metrics' = NewMetrics(now)
    /\ UNCHANGED <<exitCode, now, reqs, timers, rejections, faults,
                 nsolid, ui, script>>

\* A variant of StartupFail in which the process ends with status 0.
StartupFailStatusZero ==
    /\ phase = "loading"
    /\ phase' = "exited"
    /\ exitCode' = 0
    /\ UNCHANGED <<now, metrics, reqs, timers, rejections, faults,
                 nsolid, ui, script>>

\* readFileSync throws at module level (no handler is installed yet), or
\* initializeServer() rejects and its catch calls process.exit(1).
StartupFail ==
    /\ phase = "loading"
    /\ phase' = "exited"
    /\ exitCode' = 1
    /\ UNCHANGED <<now, metrics, reqs, timers, rejections, faults,
                 nsolid, ui, script>>

(***************************************************************************)
(* Time.                                                                   *)
(***************************************************************************)
NextInstants ==
    {t \in {now + 1} : t <= MaxFine}
    \cup {tm.due : tm \in {x \in timers : x.due > now /\ x.due <= MaxTime}}

Tick ==
    /\ phase # "exited"
    /\ \E t \in NextInstants : now' = t
    /\ UNCHANGED <<phase, exitCode, metrics, reqs, timers, rejections, faults,
                 nsolid, ui, script>>

(***************************************************************************)
(* Handlers.  A request is accepted when the middleware chain hands it to  *)
(* its handler, which runs at once up to its first suspension; each later  *)
(* action is one more run-to-suspension segment of request i.              *)
(***************************************************************************)
\* A variant of Accepts that takes no request while another one waits for
\* its delay.
AcceptsWhenIdle(inp, handler) ==
    /\ phase = "listening"
    /\ Len(reqs) < MaxReq
    /\ \A i \in DOMAIN reqs : reqs[i].pc # "delay"
    /\ HandlerOf(inp[1], inp[2]) = handler

\* The listening server takes request inp, and the chain ends in handler.
Accepts(inp, handler) ==
    /\ phase = "listening"
    /\ Len(reqs) < MaxReq
    /\ HandlerOf(inp[1], inp[2]) = handler

\* Request i is suspended at pc.
Suspended(i, pc) ==
    /\ phase = "listening"
    /\ i \in DOMAIN reqs
    /\ reqs[i].pc = pc

\* res.json(body), res.send(html), res.status(500).end(stack)
Respond(r, status, body) ==
    [r EXCEPT !.pc = "done", !.status = status, !.body = body]

\* An async handler throws: its promise rejects, nothing is sent.
Reject(r) == [r EXCEPT !.pc = "rejected"]

\* serve-static finds the file and sends it.
ServeStatic ==
    /\ \E inp \in Inputs :
         /\ Accepts(inp, "static")
         /\ reqs' = Append(reqs, Respond(NewRequest(inp), 200, [file |-> inp[2]]))
    /\ UNCHANGED <<phase, exitCode, now, metrics, timers, rejections, faults,
                 nsolid, ui, script>>

\* A variant of Health that counts the request.
HealthCounted ==
    /\ \E inp \in Inputs :
         /\ Accepts(inp, "/api/health")
         /\ reqs' = Append(reqs,
               Respond(NewRequest(inp), 200,
                       [status |-> "ok",
                        uptime |-> Ratio(now, MsPerSecond),
                        memory |-> LiveMB,
                        timestamp |-> now]))
    /\ metrics' = RecordRequest(metrics)
    /\ UNCHANGED <<phase, exitCode, now, timers, rejections, faults,
                 nsolid, ui, script>>

\* app.get('/api/health')
Health ==
    /\ \E inp \in Inputs :
         /\ Accepts(inp, "/api/health")
         /\ reqs' = Append(reqs,
               Respond(NewRequest(inp), 200,
                       [status |-> "ok",
                        uptime |-> Ratio(now, MsPerSecond),
                        memory |-> LiveMB,
                        timestamp |-> now]))
    /\ UNCHANGED <<phase, exitCode, now, metrics, timers, rejections, faults,
                 nsolid, ui, script>>

\* A variant of MetricsBody with the two counters exchanged.
MetricsBodySwapped(m, t) ==
    [requestCount |-> m.errors,
     errors |-> m.requestCount,
     uptime |-> Ratio(t - m.startTime, MsPerSecond),
     requestsPerSecond |-> Divide(m.requestCount, t - m.startTime, MsPerSecond),
     memory |-> LiveMB]

\* The object app.get('/api/metrics') hands to res.json at instant t.
MetricsBody(m, t) ==
    [requestCount |-> m.requestCount,
     errors |-> m.errors,
     uptime |-> Ratio(t - m.startTime, MsPerSecond),
     requestsPerSecond |-> Divide(m.requestCount, t - m.startTime, MsPerSecond),
     memory |-> LiveMB]

\* app.get('/api/metrics')
Metrics ==
    /\ \E inp \in Inputs :
         /\ Accepts(inp, "/api/metrics")
         /\ reqs' = Append(reqs,
               Respond(NewRequest(inp), 200, MetricsBody(metrics, now)))
    /\ UNCHANGED <<phase, exitCode, now, metrics, timers, rejections, faults,
                 nsolid, ui, script>>

\* A variant of CpuLoad that yields to the event loop before it computes.
CpuLoadYields ==
    /\ \E inp \in Inputs :
         /\ Accepts(inp, "/api/cpu-load")
         /\ reqs' = Append(reqs, [NewRequest(inp) EXCEPT !.pc = "computing",
                                                         !.start = now])
    /\ UNCHANGED <<phase, exitCode, now, metrics, timers, rejections, faults,
                 nsolid, ui, script>>

\* if (nsolid) nsolid.profile(4000, cb): a sampling window is started
\* unless one is running; what goes wrong is handed to cb, which logs it.
\* The window of 4000 ms outlasts the model's clock.
StartProfile(p) == IF p = "idle" THEN "profiling" ELSE p

ProfileOutcome(p) ==
    IF p = "absent" THEN "absent" ELSE IF p = "idle" THEN "started" ELSE "error"

Profiled(r) == [r EXCEPT !.profile = ProfileOutcome(nsolid)]

\* A variant of CpuLoad that answers only if the profiler could be started.
CpuLoadNeedsProfile ==
    /\ \E inp \in Inputs :
         /\ Accepts(inp, "/api/cpu-load")
         /\ LET n == OrDefault(QueryInt(inp[3], "n"), DefaultN)
                i == Len(reqs) + 1
            IN  IF FibThrows(n) \/ ProfileOutcome(nsolid) = "error"
                THEN /\ reqs' = Append(reqs, Reject(Profiled(NewRequest(inp))))
                     /\ rejections' = rejections \cup {i}
                     /\ now' = now
                ELSE /\ \E d \in 0..MaxBusyMs :
                          /\ now + d <= MaxTime
                          /\ now' = now + d
                          /\ reqs' = Append(reqs,
                                Respond(Profiled(NewRequest(inp)), 200,
                                        [result |-> fibonacci(n),
                                         duration |-> d,
                                         input |-> n,
                                         timestamp |-> now + d]))
                     /\ rejections' = rejections
    /\ nsolid' = StartProfile(nsolid)
    /\ UNCHANGED <<phase, exitCode, metrics, timers, faults, ui, script>>

\* app.get('/api/cpu-load'): the computation is synchronous and takes d ms.
CpuLoad ==
    /\ \E inp \in Inputs :
         /\ Accepts(inp, "/api/cpu-load")
         /\ LET n == OrDefault(QueryInt(inp[3], "n"), DefaultN)
                i == Len(reqs) + 1
            IN  IF FibThrows(n)
                THEN /\ reqs' = Append(reqs, Reject(Profiled(NewRequest(inp))))
                     /\ rejections' = rejections \cup {i}
                     /\ now' = now
                ELSE /\ \E d \in 0..MaxBusyMs :
                          /\ now + d <= MaxTime
                          /\ now' = now + d
                          /\ reqs' = Append(reqs,
                                Respond(Profiled(NewRequest(inp)), 200,
                                        [result |-> fibonacci(n),
                                         duration |-> d,
                                         input |-> n,
                                         timestamp |-> now + d]))
                     /\ rejections' = rejections
    /\ nsolid' = StartProfile(nsolid)
    /\ UNCHANGED <<phase, exitCode, metrics, timers, faults, ui, script>>

\* app.get('/api/memory-load'): a synchronous handler; what it throws goes
\* to the framework's error handler, which answers 500.
MemoryLoad ==
    /\ \E inp \in Inputs :
         /\ Accepts(inp, "/api/memory-load")
         /\ LET sizeMB == OrDefault(QueryInt(inp[3], "size"), DefaultSize)
                i == Len(reqs) + 1
            IN  IF AllocThrows(sizeMB)
                THEN /\ reqs' = Append(reqs,
                           Respond(NewRequest(inp), 500, [error |-> "RangeError"]))
                     /\ UNCHANGED <<now, timers>>
                ELSE \E d \in 0..MaxBusyMs :
                       LET buffers == allocateMemory(sizeMB) IN
                       /\ now + d <= MaxTime
                       /\ now' = now + d
                       /\ timers' = timers \cup
                             {[req |-> i, kind |-> "release",
                               due |-> now + d + TimerDelay(Num(ReleaseDelay))]}
                       /\ reqs' = Append(reqs,
                             Respond([NewRequest(inp) EXCEPT !.buffers = buffers],
                                     200,
                                     [allocatedMB |-> sizeMB,
                                      duration |-> d,
                                      memory |-> LiveMB + Len(buffers),
                                      timestamp |-> now + d]))
    /\ UNCHANGED <<phase, exitCode, metrics, rejections, faults,
                 nsolid, ui, script>>

\* A variant of ReleaseBuffers that does not wait for its timer to be due.
ReleaseBuffersEarly(i) ==
    /\ phase = "listening"
    /\ i \in DOMAIN reqs
    /\ \E tm \in timers :
         /\ tm.req = i /\ tm.kind = "release"
         /\ timers' = timers \ {tm}
    /\ reqs' = [reqs EXCEPT ![i].buffers = <<>>]
    /\ UNCHANGED <<phase, exitCode, now, metrics, rejections, faults,
                 nsolid, ui, script>>

\* The cleanup callback of memory-load and combined-load: buffers.length = 0
ReleaseBuffers(i) ==
    /\ phase = "listening"
    /\ i \in DOMAIN reqs
    /\ \E tm \in timers :
         /\ tm.req = i /\ tm.kind = "release" /\ tm.due <= now
         /\ timers' = timers \ {tm}
    /\ reqs' = [reqs EXCEPT ![i].buffers = <<>>]
    /\ UNCHANGED <<phase, exitCode, now, metrics, rejections, faults,
                 nsolid, ui, script>>

\* app.get('/api/async-load') up to its await.
AsyncLoadStart ==
    /\ \E inp \in Inputs :
         /\ Accepts(inp, "/api/async-load")
         /\ LET delay == OrDefaultNum(QueryInt(inp[3], "delay"), DefaultDelay)
                i == Len(reqs) + 1
            IN  /\ reqs' = Append(reqs,
                      [NewRequest(inp) EXCEPT !.pc = "delay", !.start = now,
                                              !.delay = delay])
                /\ timers' = timers \cup
                      {[req |-> i, kind |-> "resolve",
                        due |-> now + TimerDelay(delay)]}
    /\ UNCHANGED <<phase, exitCode, now, metrics, rejections, faults,
                 nsolid, ui, script>>

\* app.get('/api/async-load') after its await: the timer has fired.
AsyncLoadResume(i) ==
    /\ Suspended(i, "delay")
    /\ reqs[i].path = "/api/async-load"
    /\ \E tm \in timers :
         /\ tm.req = i /\ tm.kind = "resolve" /\ tm.due <= now
         /\ timers' = timers \ {tm}
    /\ reqs' = [reqs EXCEPT ![i] =
                  Respond(@, 200, [delay |-> @.delay,
                                   actualDuration |-> now - @.start,
                                   timestamp |-> now])]
    /\ UNCHANGED <<phase, exitCode, now, metrics, rejections, faults,
                 nsolid, ui, script>>

\* app.get('/api/combined-load') up to its await: CPU work, then the
\* allocation, then the timer is armed.
CombinedStart ==
    /\ \E inp \in Inputs :
         /\ Accepts(inp, "/api/combined-load")
         /\ LET cpuWork == OrDefault(QueryInt(inp[3], "cpu"), DefaultCpu)
                memoryMB == OrDefault(QueryInt(inp[3], "memory"), DefaultMemory)
                asyncDelay ==
                    OrDefaultNum(QueryInt(inp[3], "delay"), DefaultAsyncDelay)
                i == Len(reqs) + 1
            IN  IF FibThrows(cpuWork) \/ AllocThrows(memoryMB)
                THEN /\ reqs' = Append(reqs, Reject(NewRequest(inp)))
                     /\ rejections' = rejections \cup {i}
                     /\ UNCHANGED <<now, timers>>
                ELSE /\ \E d \in 0..MaxBusyMs :
                          /\ now + d <= MaxTime
                          /\ now' = now + d
                          /\ reqs' = Append(reqs,
                                [NewRequest(inp) EXCEPT
                                    !.pc = "delay",
                                    !.start = now,
                                    !.fibResult = fibonacci(cpuWork),
                                    !.allocatedMB = memoryMB,
                                    !.delay = asyncDelay,
                                    !.buffers = allocateMemory(memoryMB),
                                    !.memAfterAlloc = LiveMB + memoryMB])
                          /\ timers' = timers \cup
                                {[req |-> i, kind |-> "resolve",
                                  due |-> now + d + TimerDelay(asyncDelay)]}
                     /\ rejections' = rejections
    /\ UNCHANGED <<phase, exitCode, metrics, faults,
                 nsolid, ui, script>>

\* app.get('/api/combined-load') after its await: the cleanup timer is
\* armed and the response is sent.
CombinedResume(i) ==
    /\ Suspended(i, "delay")
    /\ reqs[i].path = "/api/combined-load"
    /\ \E tm \in timers :
         /\ tm.req = i /\ tm.kind = "resolve" /\ tm.due <= now
         /\ timers' = (timers \ {tm}) \cup
               {[req |-> i, kind |-> "release",
                 due |-> now + TimerDelay(Num(ReleaseDelay))]}
    /\ reqs' = [reqs EXCEPT ![i] =
                  Respond(@, 200, [fibResult |-> @.fibResult,
                                   allocatedMB |-> @.allocatedMB,
                                   asyncDelay |-> @.delay,
                                   totalDuration |-> now - @.start,
                                   memory |-> LiveMB,
                                   timestamp |-> now])]
    /\ UNCHANGED <<phase, exitCode, now, metrics, rejections, faults,
                 nsolid, ui, script>>

\* app.use('*') up to `await import(...)`.
SSRStart ==
    /\ \E inp \in Inputs :
         /\ Accepts(inp, "ssr")
         /\ reqs' = Append(reqs, [NewRequest(inp) EXCEPT !.pc = "import"])
    /\ metrics' = RecordRequest(metrics)
    /\ UNCHANGED <<phase, exitCode, now, timers, rejections, faults,
                 nsolid, ui, script>>

\* A variant of SSRCatch that leaves the status at 200.
SSRCatchStatusOk(r) == Respond(r, 200, [error |-> "stack"])

\* The catch block of app.use('*').
SSRCatch(r) == Respond(r, 500, [error |-> "stack"])

\* The import settles.  Fulfilled: render() is called and awaited.
\* Rejected: the catch block runs.
SSRImportSettled(i, ok) ==
    /\ Suspended(i, "import")
    /\ IF ok
       THEN /\ reqs' = [reqs EXCEPT ![i].pc = "render"]
            /\ metrics' = metrics
       ELSE /\ reqs' = [reqs EXCEPT ![i] = SSRCatch(@)]
            /\ metrics' = RecordError(metrics)
    /\ UNCHANGED <<phase, exitCode, now, timers, rejections, faults,
                 nsolid, ui, script>>

\* The render settles.  Fulfilled: the page is sent with status 200.
\* Rejected: the catch block runs.
SSRRenderSettled(i, ok) ==
    /\ Suspended(i, "render")
    /\ IF ok
       THEN /\ reqs' = [reqs EXCEPT ![i] = Respond(@, 200, [html |-> "page"])]
            /\ metrics' = metrics
       ELSE /\ reqs' = [reqs EXCEPT ![i] = SSRCatch(@)]
            /\ metrics' = RecordError(metrics)
    /\ UNCHANGED <<phase, exitCode, now, timers, rejections, faults,
                 nsolid, ui, script>>

(***************************************************************************)
(* Process-level error events.                                             *)
(***************************************************************************)
\* A variant of UncaughtException with the runtime's default: the process
\* exits with status 1.
UncaughtExceptionExits ==
    /\ phase = "listening"
    /\ faults < MaxFaults
    /\ faults' = faults + 1
    /\ phase' = "exited"
    /\ exitCode' = 1
    /\ UNCHANGED <<now, metrics, reqs, timers, rejections,
                 nsolid, ui, script>>

\* process.on('uncaughtException'): code outside the handlers threw.
UncaughtException ==
    /\ phase = "listening"
    /\ faults < MaxFaults
    /\ faults' = faults + 1
    /\ metrics' = RecordError(metrics)
    /\ UNCHANGED <<phase, exitCode, now, reqs, timers, rejections,
                 nsolid, ui, script>>

\* process.on('unhandledRejection'): the promise of an async handler
\* rejected and nothing awaits it.
UnhandledRejection(i) ==
    /\ phase = "listening"
    /\ i \in rejections
    /\ rejections' = rejections \ {i}
    /\ metrics' = RecordError(metrics)
    /\ UNCHANGED <<phase, exitCode, now, reqs, timers, faults,
                 nsolid, ui, script>>

(***************************************************************************)
(* The specification.                                                      *)
(***************************************************************************)
Next ==
    \/ StartupOk
    \/ StartupFail
    \/ Tick
    \/ UncaughtException
    \/ ServeStatic
    \/ Health
    \/ Metrics
    \/ CpuLoad
    \/ MemoryLoad
    \/ AsyncLoadStart
    \/ CombinedStart
    \/ SSRStart
    \/ \E i \in 1..MaxReq : ReleaseBuffers(i)
    \/ \E i \in 1..MaxReq : AsyncLoadResume(i)
    \/ \E i \in 1..MaxReq : CombinedResume(i)
    \/ \E i \in 1..MaxReq, ok \in BOOLEAN : SSRImportSettled(i, ok)
    \/ \E i \in 1..MaxReq, ok \in BOOLEAN : SSRRenderSettled(i, ok)
    \/ \E i \in 1..MaxReq : UnhandledRejection(i)

Spec == Init /\ [][Next]_vars

\* The event loop keeps turning: time passes while a timer is pending, a
\* callback whose timer is due is run, and a rejection nobody handles is
\* reported.
Fairness ==
    /\ WF_vars(Tick)
    /\ \A i \in 1..MaxReq :
          /\ WF_vars(UnhandledRejection(i))
          /\ WF_vars(ReleaseBuffers(i))
          /\ WF_vars(AsyncLoadResume(i))
          /\ WF_vars(CombinedResume(i))

FairSpec == Spec /\ Fairness

\* The server on the regular runtime or on the profiling runtime.
RuntimeSpec == InitAnyRuntime /\ [][Next]_vars

(***************************************************************************)
(* Properties.                                                             *)
(***************************************************************************)
Handler(i) == HandlerOf(reqs[i].method, reqs[i].path)

\* Request i exists after the step and the step was one of its segments.
Stepped(i) ==
    i \in DOMAIN reqs' /\ (i \notin DOMAIN reqs \/ reqs'[i] # reqs[i])

HandlerNext(i) == HandlerOf(reqs'[i].method, reqs'[i].path)

\* Requests that the catch-all rendering path takes.
Renders == {i \in DOMAIN reqs : Handler(i) = "ssr"}

RendersDone == {i \in Renders : reqs[i].pc = "done"}

RendersInFlight == {i \in Renders : reqs[i].pc \in {"import", "render"}}

\* Requests whose handler failed and whose failure has been dealt with.
HandlerFailures ==
    {i \in DOMAIN reqs :
        \/ reqs[i].status = 500
        \/ reqs[i].pc = "rejected" /\ i \notin rejections}

\* C1: once every rendering request accepted so far is answered with 200,
\* and no error event has occurred, requestCount is the number of rendering
\* requests answered and errors is 0, whatever the interleaving was.
C1_CountAfterRenders ==
    ( /\ \A i \in Renders :
            reqs[i].pc = "done" /\ reqs[i].status = 200
      /\ faults = 0
      /\ \A i \in DOMAIN reqs : reqs[i].pc # "rejected" )
    => /\ metrics.requestCount = Cardinality(RendersDone)
       /\ metrics.errors = 0

C1_Witness ==
    /\ Cardinality(RendersDone) >= 2
    /\ \A i \in RendersDone : reqs[i].status = 200
    /\ metrics.requestCount = Cardinality(RendersDone)
    /\ metrics.errors = 0

\* C2: both counters are never negative and never decrease, and startTime
\* keeps the value given to it when the server was initialised.
C2_CountersMonotone ==
    /\ [](metrics.requestCount >= 0 /\ metrics.errors >= 0)
    /\ [][phase = "listening" =>
            /\ metrics'.requestCount >= metrics.requestCount
            /\ metrics'.errors >= metrics.errors
            /\ metrics'.startTime = metrics.startTime]_vars

C2_Witness ==
    /\ metrics.requestCount > 0
    /\ metrics.errors > 1
    /\ metrics.startTime > 0
    /\ now > metrics.startTime

\* C3 as stated: requestCount is the number of rendering requests whose
\* response has been sent.
C3_CountEqualsCompleted ==
    metrics.requestCount = Cardinality(RendersDone)

\* C3 as amended: requestCount is incremented once per rendering request,
\* when its handling begins: it is the number of rendering requests answered
\* plus the number still in flight, so it is never below the number
\* answered and equals it whenever no rendering request is in flight.
C3_CountEqualsCompletedPlusInFlight ==
    /\ metrics.requestCount =
          Cardinality(RendersDone) + Cardinality(RendersInFlight)
    /\ metrics.requestCount >= Cardinality(RendersDone)
    /\ RendersInFlight = {} => metrics.requestCount = Cardinality(RendersDone)

C3_Witness ==
    /\ RendersInFlight # {}
    /\ RendersDone # {}
    /\ metrics.requestCount = 2

\* C4: no step of a request routed to one of the six GET /api handlers
\* changes requestCount, errors or startTime, whatever else is in flight.
C4_ApiLeavesMetrics ==
    [][(\E i \in DOMAIN reqs' : HandlerNext(i) \in ApiPaths /\ Stepped(i))
          => metrics' = metrics]_vars

C4_Witness ==
    \E i, j \in DOMAIN reqs :
        /\ Handler(i) = "/api/combined-load"
        /\ reqs[i].pc = "done" /\ reqs[i].status = 200
        /\ j \in RendersInFlight
        /\ metrics.requestCount = 1
        /\ metrics.errors = 0

C6_ProcessErrorsCounted ==
    /\ [][(faults' # faults \/ (rejections' # rejections /\ rejections' \subseteq rejections))
            => /\ metrics'.errors = metrics.errors + 1
               /\ metrics'.requestCount = metrics.requestCount
               /\ phase' = "listening"]_vars
    /\ [](faults > 0 => phase = "listening")

C6_Witness ==
    /\ faults = 1
    /\ \E i, j \in DOMAIN reqs :
          /\ reqs[i].pc = "rejected" /\ i \notin rejections
          /\ reqs[j].seenErrors = 2
          /\ reqs[j].pc = "done" /\ reqs[j].status = 200
    /\ metrics.errors = 2

\* C7 as stated: every failure of a request handler, of a load endpoint as
\* of the catch-all, is counted in errors.
C7_EveryHandlerFailureCounted ==
    metrics.errors >= faults + Cardinality(HandlerFailures)

\* C8: the response of GET /api/metrics carries requestCount and errors as
\* they are when the handler runs, and uptime = (now - startTime) / 1000.
C8_MetricsVerbatim ==
    [][\A i \in 1..MaxReq :
          (i \in DOMAIN reqs' /\ i \notin DOMAIN reqs
              /\ HandlerNext(i) = "/api/metrics")
          => /\ reqs'[i].status = 200
             /\ reqs'[i].body.requestCount = metrics.requestCount
             /\ reqs'[i].body.errors = metrics.errors
             /\ reqs'[i].body.uptime = Ratio(now - metrics.startTime, MsPerSecond)]_vars

C8_Witness ==
    \E i \in DOMAIN reqs :
        /\ Handler(i) = "/api/metrics"
        /\ reqs[i].pc = "done"
        /\ reqs[i].body.requestCount = 1
        /\ reqs[i].body.errors = 2
        /\ reqs[i].body.uptime.num > 0

\* C9 as stated: a metrics response served at uptime zero carries a
\* requestsPerSecond that is neither infinite nor NaN.
C9_RateFiniteAtZeroUptime ==
    \A i \in DOMAIN reqs :
        (Handler(i) = "/api/metrics" /\ reqs[i].pc = "done"
            /\ reqs[i].body.uptime.num = 0)
        => /\ reqs[i].body.requestsPerSecond.kind \notin {"NaN", "Infinity"}
           /\ JsonNumber(reqs[i].body.requestsPerSecond).kind = "num"

\* The Fibonacci numbers, from the pair (F(0), F(1)) = (0, 1) upwards.
RECURSIVE FibFrom(_, _, _)
FibFrom(k, a, b) == IF k = 0 THEN a ELSE FibFrom(k - 1, b, a + b)

Fib(n) == FibFrom(n, 0, 1)

\* C10 as stated: for every integer n >= 0 given as the query value n, the
\* response of GET /api/cpu-load has input = n and result = fib(n).
C10_CpuLoadReturnsFibOfN ==
    \A i \in DOMAIN reqs :
        LET n == QueryInt(reqs[i].query, "n") IN
        (Handler(i) = "/api/cpu-load" /\ reqs[i].pc = "done"
            /\ ~n.nan /\ n.v >= 0)
        => /\ reqs[i].body.input = n.v
           /\ reqs[i].body.result = Fib(n.v)

\* The value a handler is to use for a parameter: the default d when the
\* parameter is absent or is not a number, the integer given otherwise.
Expected(q, name, d) ==
    LET x == QueryInt(q, name) IN IF x.nan THEN Num(d) ELSE x

\* Request i was answered with status 200 by the handler of path.
Answered(i, path) ==
    Handler(i) = path /\ reqs[i].pc = "done" /\ reqs[i].status = 200

\* C11 as stated: for every integer size >= 0 given as the query value
\* size, the response of GET /api/memory-load has allocatedMB = size and
\* size buffers are allocated for the request (none for size = 0).
C11_AllocatesSize ==
    \A i \in DOMAIN reqs :
        LET size == QueryInt(reqs[i].query, "size") IN
        (Answered(i, "/api/memory-load")
            /\ ~size.nan /\ ~size.over /\ size.v >= 0)
        => /\ reqs[i].body.allocatedMB = size.v
           /\ (\E tm \in timers : tm.req = i /\ tm.kind = "release")
                 => Len(reqs[i].buffers) = size.v

\* C12 as stated: the actualDuration in every response of GET
\* /api/async-load is at least the delay in that response.
C12_AsyncNeverEarly ==
    \A i \in DOMAIN reqs :
        Answered(i, "/api/async-load")
        => /\ ~reqs[i].body.delay.over
           /\ reqs[i].body.actualDuration >= reqs[i].body.delay.v

\* C13 as stated: each handler uses, for each of its numeric parameters,
\* the documented default when the parameter is absent or unparsable and
\* the integer the client supplied otherwise.
C13_DefaultOrGiven ==
    \A i \in DOMAIN reqs :
        LET q == reqs[i].query IN
        /\ Answered(i, "/api/cpu-load")
              => Num(reqs[i].body.input) = Expected(q, "n", DefaultN)
        /\ Answered(i, "/api/memory-load")
              => Num(reqs[i].body.allocatedMB) = Expected(q, "size", DefaultSize)
        /\ Answered(i, "/api/async-load")
              => reqs[i].body.delay = Expected(q, "delay", DefaultDelay)
        /\ Answered(i, "/api/combined-load")
              => /\ reqs[i].body.fibResult =
                       fibonacci(Expected(q, "cpu", DefaultCpu).v)
                 /\ Num(reqs[i].body.allocatedMB) =
                       Expected(q, "memory", DefaultMemory)
                 /\ reqs[i].body.asyncDelay =
                       Expected(q, "delay", DefaultAsyncDelay)

\* The value a handler uses for a parameter: the default d when the
\* parameter is absent, is not a number or is 0, the integer given otherwise.
Used(q, name, d) ==
    LET x == Expected(q, name, d) IN IF x.v = 0 THEN Num(d) ELSE x

\* The step takes up request i, which goes to the handler of path.
TakesUp(i, path) ==
    /\ i \notin DOMAIN reqs
    /\ i \in DOMAIN reqs'
    /\ HandlerNext(i) = path

\* The step sends the response of request i, which was waiting.
Resumes(i, path) ==
    /\ i \in DOMAIN reqs
    /\ Handler(i) = path
    /\ reqs[i].pc = "delay"
    /\ reqs'[i].pc = "done"

HeldMB ==
    LET RECURSIVE Held(_)
        Held(S) == IF S = {} THEN 0
                   ELSE LET i == CHOOSE j \in S : TRUE
                        IN  Len(reqs[i].buffers) + Held(S \ {i})
    IN  Held(DOMAIN reqs)

\* C15 as stated: the memory snapshot in the response of GET
\* /api/combined-load is the one taken when the allocation had been made,
\* before the delay.
C15_SnapshotBeforeDelay ==
    \A i \in DOMAIN reqs :
        Answered(i, "/api/combined-load")
        => reqs[i].body.memory = reqs[i].memAfterAlloc

\* C15 as amended: the memory snapshot in the response of GET
\* /api/combined-load is taken when the response is built, after the delay
\* has elapsed: it shows the buffers the process holds at that instant,
\* those of other requests allocated during the delay included.
C15_SnapshotAtResponse ==
    [][\A i \in 1..MaxReq :
          Resumes(i, "/api/combined-load")
          => /\ reqs'[i].body.memory = HeldMB
             /\ reqs'[i].body.timestamp = now
             /\ now >= reqs[i].start + 1]_vars

C15_Witness ==
    \E i \in DOMAIN reqs :
        /\ Answered(i, "/api/combined-load")
        /\ reqs[i].body.memory > reqs[i].memAfterAlloc
        /\ reqs[i].body.timestamp > reqs[i].start

\* C16 as stated: when a sub-step of GET /api/combined-load fails, an error
\* response is produced for the request, and no success response is sent
\* for it.
C16_CombinedFailureAnswered ==
    \A i \in 1..MaxReq :
        /\ (i \in DOMAIN reqs /\ Handler(i) = "/api/combined-load"
               /\ reqs[i].pc = "rejected")
             ~> (i \in DOMAIN reqs /\ reqs[i].status >= 400)
        /\ [](i \in DOMAIN reqs /\ Handler(i) = "/api/combined-load"
               /\ reqs[i].pc = "rejected"
             => reqs[i].status # 200)

\* The release timer of request i is pending.
ReleaseArmed(i) == \E tm \in timers : tm.req = i /\ tm.kind = "release"

\* C17: the buffers of a memory-load or combined-load request stay held
\* until its release timer fires; the timer is armed in the segment that
\* sends the response, for 1000 ms later, so the response always precedes
\* the release; and once the timer is armed the buffer list is eventually
\* emptied.
C17_ReleasedAfterResponse ==
    /\ [](\A i \in DOMAIN reqs :
            /\ ReleaseArmed(i)
                 => /\ reqs[i].pc = "done" /\ reqs[i].status = 200
                    /\ Handler(i) \in {"/api/memory-load", "/api/combined-load"}
                    /\ \A tm \in timers :
                          tm.req = i
                          => tm.due = reqs[i].body.timestamp + ReleaseDelay
            /\ (reqs[i].buffers # <<>> /\ reqs[i].pc = "done")
                 => ReleaseArmed(i))
    /\ [][\A i \in DOMAIN reqs :
            (reqs[i].buffers # <<>> /\ reqs'[i].buffers = <<>>)
            => /\ reqs[i].pc = "done" /\ reqs[i].status = 200
               /\ reqs'[i].body = reqs[i].body
               /\ now >= reqs[i].body.timestamp + ReleaseDelay]_vars
    /\ \A i \in 1..MaxReq :
          (i \in DOMAIN reqs /\ ReleaseArmed(i)
              /\ reqs[i].body.timestamp + ReleaseDelay <= MaxTime)
          ~> (i \in DOMAIN reqs /\ reqs[i].buffers = <<>> /\ ~ReleaseArmed(i))

C17_Witness ==
    \E i, j \in DOMAIN reqs :
        /\ Answered(i, "/api/memory-load")
        /\ Answered(j, "/api/combined-load")
        /\ reqs[i].body.allocatedMB > 0 /\ reqs[j].body.allocatedMB > 0
        /\ reqs[i].buffers = <<>> /\ reqs[j].buffers = <<>>
        /\ ~ReleaseArmed(i) /\ ~ReleaseArmed(j)
        /\ now >= reqs[j].body.timestamp + ReleaseDelay

\* C18: a GET /api/cpu-load request computes and answers (or fails) within
\* the one step that takes it up: while the clock advances by the duration
\* of the computation no other request moves, no timer callback runs, even
\* one that falls due meanwhile, and neither counter changes; a cpu-load
\* request is never seen between the start of its computation and its end.
C18_CpuLoadBlocks ==
    /\ [](\A i \in DOMAIN reqs :
            Handler(i) = "/api/cpu-load" => reqs[i].pc \in {"done", "rejected"})
    /\ [][\A i \in 1..MaxReq :
            TakesUp(i, "/api/cpu-load")
            => /\ \A j \in DOMAIN reqs : reqs'[j] = reqs[j]
               /\ timers' = timers
               /\ metrics' = metrics
               /\ reqs'[i].pc = "done"
                    => /\ reqs'[i].body.duration = now' - now
                       /\ reqs'[i].body.timestamp = now']_vars

C18_Witness ==
    \E i, j \in DOMAIN reqs :
        /\ Answered(i, "/api/cpu-load")
        /\ reqs[i].body.duration > 0
        /\ reqs[i].body.timestamp = now
        /\ reqs[j].pc = "delay"
        /\ \E tm \in timers :
              /\ tm.req = j
              /\ tm.due > now - reqs[i].body.duration
              /\ tm.due <= now

\* Requests that wait for the timer of their delay.
Waiting ==
    {i \in DOMAIN reqs :
        /\ Handler(i) \in {"/api/async-load", "/api/combined-load"}
        /\ reqs[i].pc = "delay"}

\* C19: while an async-load request, or a combined-load request in its
\* delay, waits, the server can take up other requests and answer them: a
\* waiting request disables no handler.
C19_DelayYields ==
    (Waiting # {} /\ Len(reqs) < MaxReq)
    => /\ ENABLED Health
       /\ ENABLED Metrics
       /\ ENABLED ServeStatic
       /\ ENABLED CpuLoad
       /\ ENABLED MemoryLoad
       /\ ENABLED AsyncLoadStart
       /\ ENABLED CombinedStart
       /\ ENABLED SSRStart

\* A second request was answered strictly between the start and the end of
\* the delay of the first.
C19_Witness ==
    \E i, j \in DOMAIN reqs :
        /\ i < j
        /\ Answered(i, "/api/async-load") \/ Answered(i, "/api/combined-load")
        /\ Answered(j, "/api/health")
        /\ reqs[i].start < reqs[j].body.timestamp
        /\ reqs[j].body.timestamp < reqs[i].body.timestamp

\* Requests taken up by the two handlers that wait for a delay.
Delayed ==
    {i \in DOMAIN reqs :
        Handler(i) \in {"/api/async-load", "/api/combined-load"}}

C21_FailedStartupExits ==
    /\ [](phase = "exited" => exitCode # 0 /\ reqs = <<>> /\ timers = {})
    /\ [][phase = "exited" => phase' = "exited" /\ reqs' = <<>>]_vars
    /\ [][phase' = "exited" => phase \in {"loading", "exited"}]_vars

C21_Witness == phase = "exited" /\ exitCode = 1 /\ reqs = <<>>

\* The sampling window asked of the profiler, in milliseconds.
ProfileWindow == 4000

\* What the client of cpu-load request i gets.
CpuOutcome(i) ==
    <<reqs[i].pc, reqs[i].status,
      IF reqs[i].pc = "done"
      THEN <<reqs[i].body.result, reqs[i].body.input>>
      ELSE <<>> >>

\* What the query alone determines for a cpu-load request.
CpuExpected(q) ==
    LET n == Used(q, "n", DefaultN).v IN
    IF FibThrows(n) THEN <<"rejected", 0, <<>> >>
    ELSE <<"done", 200, <<fibonacci(n), n>> >>

CpuLoads == {i \in DOMAIN reqs : Handler(i) = "/api/cpu-load"}

(***************************************************************************)
(* C22.  The outcome of GET /api/cpu-load is determined by the query       *)
(* alone: whether the profiler is absent, starts its window or reports an  *)
(* error, the request has the same fate and the same result and input, the *)
(* step that handles it leaves the counters alone, and the response is     *)
(* sent in that very step, long before the sampling window ends.           *)
(***************************************************************************)
C22_ProfilerUnobservable ==
    /\ [](\A i \in CpuLoads :
            /\ reqs[i].profile \in {"absent", "started", "error"}
            /\ CpuOutcome(i) = CpuExpected(reqs[i].query)
            /\ \A j \in CpuLoads :
                   reqs[j].query = reqs[i].query => CpuOutcome(j) = CpuOutcome(i)
            /\ reqs[i].pc = "done" => reqs[i].body.duration < ProfileWindow)
    /\ [][\A i \in 1..MaxReq :
            TakesUp(i, "/api/cpu-load")
            => /\ metrics' = metrics
               /\ timers' = timers
               /\ reqs'[i].pc \in {"done", "rejected"}
               /\ (i \in rejections') = (reqs'[i].pc = "rejected")]_vars

\* Two requests with the same query were answered alike, the first having
\* started the sampling window and the second having met a profiler error.
C22_Witness ==
    /\ Len(reqs) = 2
    /\ CpuLoads = {1, 2}
    /\ reqs[1].query = reqs[2].query
    /\ reqs[1].profile = "started"
    /\ reqs[2].profile = "error"
    /\ reqs[1].pc = "done" /\ reqs[2].pc = "done"
    /\ reqs[1].body.result = reqs[2].body.result

\* Rendering requests answered with the error page.
RendersFailed == {i \in Renders : reqs[i].pc = "done" /\ reqs[i].status = 500}

\* Rejections of async handlers that the process-level handler has counted.
RejectionsCounted ==
    {i \in DOMAIN reqs : reqs[i].pc = "rejected" /\ i \notin rejections}

GivesZero(i, name) ==
    LET x == QueryInt(reqs[i].query, name) IN ~x.nan /\ ~x.over /\ x.v = 0

(***************************************************************************)
(* C24.  A parameter given as 0 is replaced by its default, as an absent   *)
(* one is: n=0 computes fib(40) and reports input 40; size=0 allocates 10  *)
(* buffers and reports allocatedMB 10; delay=0 waits 100 ms and reports    *)
(* delay 100; cpu=0, memory=0 and delay=0 of combined-load become 30, 5    *)
(* and 50.                                                                 *)
(***************************************************************************)
C24_ZeroTakesDefault ==
    /\ [](\A i \in DOMAIN reqs :
            /\ (Answered(i, "/api/cpu-load") /\ GivesZero(i, "n"))
                 => /\ reqs[i].body.input = DefaultN
                    /\ reqs[i].body.result = Fib(DefaultN)
            /\ (Answered(i, "/api/memory-load") /\ GivesZero(i, "size"))
                 => /\ reqs[i].body.allocatedMB = DefaultSize
                    /\ ReleaseArmed(i) => Len(reqs[i].buffers) = DefaultSize
            /\ (Handler(i) = "/api/async-load" /\ GivesZero(i, "delay"))
                 => /\ reqs[i].delay = Num(DefaultDelay)
                    /\ reqs[i].pc = "delay"
                         => \E tm \in timers :
                              /\ tm.req = i /\ tm.kind = "resolve"
                              /\ tm.due = reqs[i].start + DefaultDelay
                    /\ reqs[i].pc = "done"
                         => /\ reqs[i].body.delay = Num(DefaultDelay)
                            /\ reqs[i].body.actualDuration >= DefaultDelay
            /\ (Answered(i, "/api/combined-load") /\ GivesZero(i, "cpu"))
                 => reqs[i].body.fibResult = Fib(DefaultCpu)
            /\ (Answered(i, "/api/combined-load") /\ GivesZero(i, "memory"))
                 => reqs[i].body.allocatedMB = DefaultMemory
            /\ (Answered(i, "/api/combined-load") /\ GivesZero(i, "delay"))
                 => /\ reqs[i].body.asyncDelay = Num(DefaultAsyncDelay)
                    /\ reqs[i].body.totalDuration >= DefaultAsyncDelay)
    /\ [][\A i \in 1..MaxReq :
            (TakesUp(i, "/api/combined-load") /\ reqs'[i].pc = "delay")
            => /\ GivesZero(i, "memory")' => Len(reqs'[i].buffers) = DefaultMemory
               /\ GivesZero(i, "cpu")' => reqs'[i].fibResult = Fib(DefaultCpu)]_vars

C24_Witness ==
    \E i, j \in DOMAIN reqs :
        /\ Answered(i, "/api/async-load") /\ GivesZero(i, "delay")
        /\ reqs[i].body.actualDuration = DefaultDelay
        /\ Answered(j, "/api/combined-load")
        /\ GivesZero(j, "cpu") /\ GivesZero(j, "memory") /\ GivesZero(j, "delay")
        /\ reqs[j].body.fibResult = 832040
        /\ reqs[j].body.allocatedMB = 5
        /\ reqs[j].body.asyncDelay.v = 50

\* n=0 and size=0 answered with the defaults.
C24_WitnessCpuMemory ==
    \E i, j \in DOMAIN reqs :
        /\ Answered(i, "/api/cpu-load") /\ GivesZero(i, "n")
        /\ reqs[i].body.input = 40
        /\ Answered(j, "/api/memory-load") /\ GivesZero(j, "size")
        /\ Len(reqs[j].buffers) = 10

\* The query of request i gives a negative integer for the parameter name.
GivesNegative(i, name) ==
    LET x == QueryInt(reqs[i].query, name) IN ~x.nan /\ ~x.over /\ x.v < 0

(***************************************************************************)
(* C25.  A negative parameter is taken as it is and the request is         *)
(* answered with 200: cpu-load with n < 0 returns result = n and input =   *)
(* n; memory-load with size < 0 allocates no buffer at all and still       *)
(* reports allocatedMB = size, so the report is not the number of buffers. *)
(***************************************************************************)
C25_NegativeAccepted ==
    /\ [](\A i \in DOMAIN reqs :
            /\ (Handler(i) = "/api/cpu-load" /\ GivesNegative(i, "n"))
                 => /\ reqs[i].pc = "done" /\ reqs[i].status = 200
                    /\ reqs[i].body.input = QueryInt(reqs[i].query, "n").v
                    /\ reqs[i].body.result = reqs[i].body.input
            /\ (Handler(i) = "/api/memory-load" /\ GivesNegative(i, "size"))
                 => /\ reqs[i].pc = "done" /\ reqs[i].status = 200
                    /\ reqs[i].body.allocatedMB = QueryInt(reqs[i].query, "size").v
                    /\ reqs[i].buffers = <<>>
                    /\ reqs[i].body.allocatedMB # Len(reqs[i].buffers))
    /\ [][\A i \in 1..MaxReq :
            (TakesUp(i, "/api/memory-load") /\ GivesNegative(i, "size")')
            => /\ reqs'[i].body.memory = LiveMB
               /\ ReleaseArmed(i)']_vars

C25_Witness ==
    \E i, j \in DOMAIN reqs :
        /\ Answered(i, "/api/cpu-load")
        /\ reqs[i].body.input = 0 - 3 /\ reqs[i].body.result = 0 - 3
        /\ Answered(j, "/api/memory-load")
        /\ reqs[j].body.allocatedMB = 0 - 2
        /\ reqs[j].buffers = <<>>
        /\ ReleaseArmed(j)

\* Request i is in the catch-all handler or was answered by it.
InCatchAll(i) ==
    \/ reqs[i].pc \in {"import", "render"}
    \/ /\ reqs[i].pc = "done"
       /\ \/ reqs[i].body = [html |-> "page"]
          \/ reqs[i].body = [error |-> "stack"]

\* The step takes up request i and counts it in requestCount.
CountedOnArrival(i) ==
    (i \notin DOMAIN reqs /\ i \in DOMAIN reqs')
    => /\ reqs'[i].pc = "import"
       /\ metrics'.requestCount = metrics.requestCount + 1

C26_WitnessHead ==
    \E i \in DOMAIN reqs :
        /\ reqs[i].method = "HEAD" /\ reqs[i].path = "/api/health"
        /\ reqs[i].pc = "done" /\ reqs[i].body.status = "ok"
        /\ metrics.requestCount = 0

\* The step empties the buffer list of combined-load request i.
CombinedReleased(i) ==
    /\ i \in DOMAIN reqs
    /\ Handler(i) = "/api/combined-load"
    /\ reqs[i].buffers # <<>>
    /\ reqs'[i].buffers = <<>>

MaxClicks == 4

\* healthCheck, getMetrics, cpuLoad, memoryLoad, asyncLoad, combinedLoad
Buttons ==
    {"Health Check", "Metrics", "CPU Load (Fibonacci 35)",
     "Memory Load (10MB)", "Async Load (100ms)", "Combined Load"}

\* What `${e}` starts with: fetch rejects with a TypeError, res.json()
\* with a SyntaxError.
Thrown == {"TypeError", "SyntaxError"}

\* A variant of Disabled: the buttons stay enabled.
DisabledNever(u) == FALSE

\* :disabled="loading", as rendered after the last flush.
Disabled(u) == u.loading

\* The catch and finally blocks of callEndpoint, for call k.
Caught(u, k, e) ==
    [u EXCEPT !.error = [null |-> FALSE, label |-> u.calls[k].label, e |-> e],
              !.loading = FALSE,
              !.calls = SubSeq(@, 1, k - 1) \o SubSeq(@, k + 1, Len(@))]

\* A click on an enabled button: callEndpoint runs up to `await fetch(url)`
\* and the component is rendered again before the next event.
Click(b) ==
    /\ ~Disabled(ui)
    /\ ui.clicks < MaxClicks
    /\ ui' = [ui EXCEPT !.loading = TRUE,
                        !.error = Null,
                        !.response = Null,
                        !.calls = Append(@, [label |-> b, pc |-> "fetch"]),
                        !.clicks = @ + 1]
    /\ UNCHANGED <<phase, exitCode, now, metrics, reqs, timers, rejections,
                   faults, nsolid, script>>

\* fetch settles: with a response of any status, and res.json() is
\* awaited, or with a network error, and the catch block runs.
FetchSettles(k, ok) ==
    /\ k \in DOMAIN ui.calls
    /\ ui.calls[k].pc = "fetch"
    /\ ui' = IF ok THEN [ui EXCEPT !.calls[k].pc = "json"]
                   ELSE Caught(ui, k, "TypeError")
    /\ UNCHANGED <<phase, exitCode, now, metrics, reqs, timers, rejections,
                   faults, nsolid, script>>

\* res.json() settles: with the parsed body, or with a SyntaxError when
\* the body is not JSON (the HTML of an error page, for instance).
JsonSettles(k, ok) ==
    /\ k \in DOMAIN ui.calls
    /\ ui.calls[k].pc = "json"
    /\ ui' = IF ok
             THEN [ui EXCEPT
                     !.response = [null |-> FALSE, label |-> ui.calls[k].label,
                                   data |-> "json"],
                     !.loading = FALSE,
                     !.calls = SubSeq(@, 1, k - 1) \o SubSeq(@, k + 1, Len(@))]
             ELSE Caught(ui, k, "SyntaxError")
    /\ UNCHANGED <<phase, exitCode, now, metrics, reqs, timers, rejections,
                   faults, nsolid, script>>

UiNext ==
    \/ \E b \in Buttons : Click(b)
    \/ \E k \in 1..MaxClicks, ok \in BOOLEAN : FetchSettles(k, ok)
    \/ \E k \in 1..MaxClicks, ok \in BOOLEAN : JsonSettles(k, ok)

UiSpec == Init /\ [][UiNext]_vars

(***************************************************************************)
(* C28.  While a call is in flight loading is true and response and error  *)
(* are both null; when no call is in flight loading is false and, once a   *)
(* call has been made, exactly one of response and error is set: response  *)
(* after fetch and res.json() both succeeded, error after either failed.   *)
(* The buttons are disabled while loading, so at most one call is in       *)
(* flight.                                                                 *)
(***************************************************************************)
C28_OneCallAtATime ==
    /\ [](/\ Len(ui.calls) <= 1
          /\ ui.loading = (ui.calls # <<>>)
          /\ ui.loading => ui.response = Null /\ ui.error = Null
          /\ (~ui.loading /\ ui.clicks > 0)
               => (ui.response = Null) # (ui.error = Null)
          /\ ui.clicks = 0 => ui.response = Null /\ ui.error = Null)
    /\ [][/\ (ui.loading /\ ~ui'.loading)
               => /\ ui'.calls = <<>>
                  /\ (ui'.response # Null)
                        = (ui.calls[1].pc = "json" /\ ui'.error = Null)
                  /\ ui'.response # Null
                        => ui'.response.label = ui.calls[1].label
                  /\ ui'.error # Null
                        => /\ ui'.error.label = ui.calls[1].label
                           /\ ui'.error.e \in Thrown
          /\ (~ui.loading /\ ui'.loading)
               => ui'.clicks = ui.clicks + 1 /\ Len(ui'.calls) = 1
          /\ (ui.loading /\ ui'.loading)
               => ui'.clicks = ui.clicks]_vars

\* A call failed, the next one succeeded, and a third one is in flight.
C28_Witness ==
    /\ ui.clicks = 3
    /\ ui.loading
    /\ Len(ui.calls) = 1 /\ ui.calls[1].pc = "json"
    /\ ui.response = Null /\ ui.error = Null

\* A call has settled with a response.
C28_WitnessSettled ==
    /\ ui.clicks = 2
    /\ ~ui.loading
    /\ ui.response # Null /\ ui.response.label = "Metrics"
    /\ ui.error = Null

(***************************************************************************)
(* The load-test script, run-loadtest.sh and its PowerShell counterpart.   *)
(***************************************************************************)
MAX_RETRIES == 10

\* Probes of the PowerShell wait loop that are answered with a status
\* other than 200 without raising an error.
MaxOddProbes == 1

Shells == {"sh", "ps1"}

\* k6, artillery, simple, and a name the script does not know.
TestTypes == {"k6", "artillery", "simple", "other"}

\* [ -n "$SERVER_PID" ] && kill $SERVER_PID
\* if ($serverProcess) { Stop-Process -Id $serverProcess.Id -Force }
Kill(sc) ==
    IF sc.spawned THEN [sc EXCEPT !.alive = FALSE, !.killed = TRUE] ELSE sc

\* exit n, or the end of the script
Exit(sc, n) == [sc EXCEPT !.pc = "exited", !.exit = n]

\* The script is started with a test type and probes /api/health once: if
\* a server answers it goes on to the test, otherwise it will start one.
CheckServer(shell, testType, running) ==
    /\ script.pc = "check"
    /\ script' = [script EXCEPT !.shell = shell, !.testType = testType,
                                !.pc = IF running THEN "test" ELSE "spawn"]
    /\ UNCHANGED <<phase, exitCode, now, metrics, reqs, timers, rejections,
                   faults, nsolid, ui>>

\* node dist/server/index.js &  with SERVER_PID=$!, RETRIES=0
StartServer ==
    /\ script.pc = "spawn"
    /\ script' = [script EXCEPT !.spawned = TRUE, !.alive = TRUE,
                                !.retries = 0, !.pc = "wait"]
    /\ UNCHANGED <<phase, exitCode, now, metrics, reqs, timers, rejections,
                   faults, nsolid, ui>>

\* The spawned server ends by itself (its startup failed, for instance).
ServerDies ==
    /\ script.pc # "exited"
    /\ script.alive
    /\ script' = [script EXCEPT !.alive = FALSE]
    /\ UNCHANGED <<phase, exitCode, now, metrics, reqs, timers, rejections,
                   faults, nsolid, ui>>

\* A variant of WaitProbe that counts the attempt before probing, so that
\* a tenth probe that succeeds leaves the loop with RETRIES = MAX_RETRIES.
WaitProbeCountsFirst(outcome) ==
    /\ script.pc = "wait"
    /\ script.retries < MAX_RETRIES
    /\ outcome \in {"ok", "odd"} => script.alive
    /\ outcome = "odd" => script.shell = "ps1" /\ script.odd < MaxOddProbes
    /\ script' =
         IF outcome = "odd"
         THEN [script EXCEPT !.odd = @ + 1]
         ELSE LET sc == [script EXCEPT
                           !.retries = @ + 1,
                           !.failed = IF outcome = "ok" THEN @ ELSE @ + 1,
                           !.probed = @ \/ outcome = "ok"]
              IN  IF sc.retries = MAX_RETRIES THEN Exit(sc, 1)
                  ELSE IF outcome = "ok" THEN [sc EXCEPT !.pc = "test"]
                  ELSE sc
    /\ UNCHANGED <<phase, exitCode, now, metrics, reqs, timers, rejections,
                   faults, nsolid, ui>>

\* One turn of the wait loop, sleep 1 and a probe, with the test after
\* the loop when the loop ends.  A probe can only be answered while the
\* server runs.  "odd" is an answer that Invoke-WebRequest returns
\* without error and whose status is not 200: the PowerShell loop neither
\* breaks nor counts it.
WaitProbe(outcome) ==
    /\ script.pc = "wait"
    /\ script.retries < MAX_RETRIES
    /\ outcome \in {"ok", "odd"} => script.alive
    /\ outcome = "odd" => script.shell = "ps1" /\ script.odd < MaxOddProbes
    /\ script' =
         IF outcome = "ok"
         THEN [script EXCEPT !.probed = TRUE, !.pc = "test"]
         ELSE IF outcome = "odd"
         THEN [script EXCEPT !.odd = @ + 1]
         ELSE LET sc == [script EXCEPT !.retries = @ + 1, !.failed = @ + 1]
              IN  IF sc.retries < MAX_RETRIES THEN sc
                  ELSE Exit(sc, 1)
    /\ UNCHANGED <<phase, exitCode, now, metrics, reqs, timers, rejections,
                   faults, nsolid, ui>>

\* case "$TEST_TYPE": the load tool runs, or the script gives up because
\* k6 is not installed or the test type is unknown.
RunTest(installed) ==
    /\ script.pc = "test"
    /\ script' =
         IF script.testType = "other" \/ (script.testType = "k6" /\ ~installed)
         THEN Exit(Kill(script), 1)
         ELSE [script EXCEPT !.ran = TRUE, !.pc = "cleanup"]
    /\ UNCHANGED <<phase, exitCode, now, metrics, reqs, timers, rejections,
                   faults, nsolid, ui>>

\* The final metrics are fetched and the server the script started is
\* stopped.
Cleanup ==
    /\ script.pc = "cleanup"
    /\ script' = Exit(Kill(script), 0)
    /\ UNCHANGED <<phase, exitCode, now, metrics, reqs, timers, rejections,
                   faults, nsolid, ui>>

ScriptNext ==
    \/ \E shell \in Shells, testType \in TestTypes, running \in BOOLEAN :
          CheckServer(shell, testType, running)
    \/ StartServer
    \/ ServerDies
    \/ \E outcome \in {"ok", "odd", "failed"} : WaitProbe(outcome)
    \/ \E installed \in BOOLEAN : RunTest(installed)
    \/ Cleanup

ScriptSpec == Init /\ [][ScriptNext]_vars

\* Every command of the script returns: the sleep, the probe (the
\* PowerShell one has a timeout of 2 s), the load tool.
FairScriptSpec == ScriptSpec /\ WF_vars(ScriptNext)

(***************************************************************************)
(* C29 as stated: when the script exits after having started the server   *)
(* itself, that server is not left running.                                *)
(***************************************************************************)
C29_SpawnedServerKilled ==
    (script.pc = "exited" /\ script.spawned) => ~script.alive

\* The script gave up waiting for the server it started.
StartFailed ==
    script.pc = "exited" /\ script.spawned /\ script.retries = MAX_RETRIES

(***************************************************************************)
(* C30.  The wait loop of the script makes at most 10 probes that fail     *)
(* and then ends.  A script that started the server goes on to the load    *)
(* test only after a probe succeeded; when none did, it exits with status  *)
(* 1 and has run no load test.  A probe that succeeds, be it the tenth,    *)
(* ends the loop without a start failure.                                  *)
(***************************************************************************)
C30_WaitLoopBounded ==
    /\ [](/\ script.failed <= MAX_RETRIES
          /\ script.retries = script.failed
          /\ script.pc = "wait" => script.retries < MAX_RETRIES /\ ~script.probed
          /\ (script.spawned /\ script.pc \in {"test", "cleanup"})
               => script.probed
          /\ (script.spawned /\ script.ran) => script.probed
          /\ script.probed => ~StartFailed /\ script.retries < MAX_RETRIES
          /\ (script.spawned /\ script.pc = "exited" /\ ~script.probed)
               => StartFailed /\ script.exit = 1 /\ ~script.ran)
    /\ [][(script.pc = "wait" /\ script'.probed)
            => script'.pc = "test" /\ script'.retries = script.retries]_vars
    /\ (script.pc = "wait") ~> (script.pc # "wait")

\* The tenth probe succeeded after nine failures and the load test ran.
C30_Witness ==
    /\ script.shell = "sh"
    /\ script.spawned
    /\ script.failed = MAX_RETRIES - 1
    /\ script.probed
    /\ script.ran
    /\ script.pc = "exited" /\ script.exit = 0

\* No probe succeeded: ten failures, status 1, no load test.
C30_WitnessFailed ==
    /\ script.spawned
    /\ script.failed = MAX_RETRIES
    /\ ~script.probed /\ ~script.ran
    /\ script.pc = "exited" /\ script.exit = 1
====
